---- MODULE Spec2Model ----
(***************************************************************************)
(* Model of magnum/api/controllers/v1/replicationcontroller.py: the API    *)
(* representation of a ReplicationController, its collection, and the REST *)
(* controller (get_all, detail, get_one, post, patch, delete).             *)
(*                                                                         *)
(* Python values are modelled as strings: None is "None", wtypes.Unset is  *)
(* "Unset".  A dict is a function whose DOMAIN is its key set; an object   *)
(* is a function from the names of the attributes it has to their values,  *)
(* so hasattr(o, k) is k \in DOMAIN o.                                     *)
(***************************************************************************)
EXTENDS Integers, Sequences, FiniteSets, TLC

\* Bounds of the model.
MaxRequests == 2        \* requests handled in a behaviour of Spec
MaxListRequests == 3    \* requests handled in a behaviour of SpecList
MaxSetterCalls == 3     \* requests and setter calls in a behaviour of SpecResolver
MaxPatchLen == 2        \* operations in one patch document
max_limit == 2          \* CONF.api.max_limit, the page-size ceiling

VARIABLES
    db,        \* the store: sequence of DomainRecords in surrogate-id order
    nextId,    \* next surrogate id the store hands out
    from_rcs,  \* ReplicationControllersController.from_rcs
    nreq,      \* requests handled so far
    obj,       \* a ReplicationController API object on which the setter is called
    last       \* what the last request did: inputs, outcome, effects

vars == <<db, nextId, from_rcs, nreq, obj, last>>

Unset == "Unset"
None == "None"

\* ---------------------------------------------------------------- helpers
Get(m, k, d) == IF k \in DOMAIN m THEN m[k] ELSE d

SetKey(m, k, v) == [x \in DOMAIN m \cup {k} |-> IF x = k THEN v ELSE m[x]]

DelKey(m, k) == [x \in DOMAIN m \ {k} |-> m[x]]

EmptyDict == [x \in {} |-> None]

RECURSIVE SeqFilter(_, _)
SeqFilter(s, S) ==
    IF s = <<>> THEN <<>>
    ELSE IF Head(s) \in S THEN <<Head(s)>> \o SeqFilter(Tail(s), S)
    ELSE SeqFilter(Tail(s), S)

Range(s) == {s[i] : i \in DOMAIN s}

Reverse(s) == [i \in 1..Len(s) |-> s[Len(s) + 1 - i]]

\* ---------------------------------------------------------------- the store
\* objects.ReplicationController.fields
Fields == <<"id", "uuid", "name", "images", "bay_uuid", "selector", "replicas",
            "rc_definition_url", "rc_data", "created_at", "updated_at">>

UuidOf(n) == "u" \o ToString(n)

\* Bays that exist in the store, and the bay references a client may send.
Bays == {"b1"}
BayRefs == {"b1", "b9"}

\* store.get_by_uuid: the positions holding uuid u (empty: not found)
get_by_uuid(store, u) == {i \in 1..Len(store) : store[i]["uuid"] = u}

\* the DomainRecord as a flat mapping
obj_as_dict(rec) == [f \in Range(Fields) |-> rec[f]]

\* store.create: assigns the surrogate id, a uuid when absent and created_at
rc_create(store, n, vals) ==
    Append(store,
           [f \in Range(Fields) |->
               IF f = "id" THEN ToString(n)
               ELSE IF f = "uuid" THEN Get(vals, "uuid", UuidOf(n))
               ELSE IF f = "created_at" THEN "t0"
               ELSE Get(vals, f, None)])

\* store.save: persists the record loaded from position i
save(store, i, rec) == [store EXCEPT ![i] = rec]

\* store.delete
rc_delete(store, i) == [j \in 1..(Len(store) - 1) |-> IF j < i THEN store[j] ELSE store[j + 1]]

\* ---------------------------------------------------------------- ReplicationController (API object)
\* attributes declared on the class
DeclaredAttrs == {"uuid", "name", "images", "bay_uuid", "selector", "replicas",
                  "rc_definition_url", "rc_data"}

\* attributes inherited from base.APIBase
BaseAttrs == {"created_at", "updated_at"}

\* a fresh instance: wsme attributes read Unset, _rc_uuid reads None
NewObject ==
    [attrs |-> [a \in DeclaredAttrs \cup BaseAttrs \cup {"_rc_uuid"} |->
                   IF a = "_rc_uuid" THEN None ELSE Unset],
     fields |-> <<>>,
     links |-> <<>>]

\* ReplicationController.__init__(**kwargs)
ReplicationController(kwargs) ==
    LET base == NewObject.attrs
        exposed == SeqFilter(Fields \o <<"rc_uuid">>, DOMAIN base)
        looped == [a \in DOMAIN base |->
                      IF a \in Range(exposed) THEN Get(kwargs, a, Unset) ELSE base[a]]
    IN [attrs |-> SetKey(looped, "rc_uuid", Get(kwargs, "rc_id", Unset)),
        fields |-> exposed \o <<"rc_id">>,
        links |-> <<>>]

\* base.APIBase.as_dict
as_dict(rc) ==
    LET keys == {k \in Range(rc.fields) : k \in DOMAIN rc.attrs /\ rc.attrs[k] # Unset}
    IN [k \in keys |-> rc.attrs[k]]

\* base.APIBase.unset_fields_except
unset_fields_except(rc, except_list) ==
    [rc EXCEPT !.attrs = [a \in DOMAIN rc.attrs |->
        IF a \in DOMAIN as_dict(rc) /\ a \notin except_list THEN Unset ELSE rc.attrs[a]]]

host_url == "http://host"

\* link.Link.make_link
make_link(rel, url, resource, id, bookmark) ==
    [rel |-> rel,
     href |-> url \o (IF bookmark THEN "" ELSE "/v1") \o "/" \o resource \o "/" \o id]

CollapsedFields == {"uuid", "name", "images", "bay_uuid", "selector", "replicas"}

\* _convert_with_links without the line that unsets rc_id
_convert_with_links_keeps_rc_id(rc, url, expand) ==
    LET rc1 == IF ~expand THEN unset_fields_except(rc, CollapsedFields) ELSE rc
    IN [rc1 EXCEPT !.links =
           <<make_link("self", url, "rcs", rc1.attrs["uuid"], FALSE),
             make_link("bookmark", url, "rcs", rc1.attrs["uuid"], TRUE)>>]

\* ReplicationController._convert_with_links
_convert_with_links(rc, url, expand) ==
    LET rc1 == IF ~expand THEN unset_fields_except(rc, CollapsedFields) ELSE rc
        rc2 == [rc1 EXCEPT !.attrs = SetKey(rc1.attrs, "rc_id", Unset)]
    IN [rc2 EXCEPT !.links =
           <<make_link("self", url, "rcs", rc2.attrs["uuid"], FALSE),
             make_link("bookmark", url, "rcs", rc2.attrs["uuid"], TRUE)>>]

\* ReplicationController.convert_with_links
convert_with_links(rpc_rc, expand) ==
    _convert_with_links(ReplicationController(obj_as_dict(rpc_rc)), host_url, expand)

\* ---------------------------------------------------------------- requests
Idle ==
    [op |-> "none", exc |-> "none", code |-> 0, pre |-> <<>>, target |-> None,
     addressed |-> {}, kw |-> EmptyDict, built |-> <<>>, ret |-> <<>>,
     assigned |-> {}, saved |-> FALSE, created |-> FALSE,
     listed |-> <<>>, did_list |-> FALSE, coll |-> <<>>, query |-> EmptyDict,
     path |-> <<>>, before |-> <<>>, idx |-> 0]

Fail(op, exc, code) == [Idle EXCEPT !.op = op, !.exc = exc, !.code = code, !.pre = db]

\* uuids a request may name: every uuid handed out so far and one never handed out
KnownUuids == {UuidOf(i) : i \in 0..(nextId - 1)}

\* the body of a create request, as wsme builds it from the client's JSON
PostBody(bay) ==
    [NewObject EXCEPT !.attrs =
        [a \in DOMAIN NewObject.attrs |->
            CASE a = "name" -> "n"
              [] a = "images" -> "img"
              [] a = "bay_uuid" -> bay
              [] a = "selector" -> "sel"
              [] a = "replicas" -> "2"
              [] a = "rc_data" -> "d0"
              [] OTHER -> NewObject.attrs[a]],
        !.fields = ReplicationController(EmptyDict).fields]

\* ReplicationControllersController.post
post(rc) ==
    /\ nreq' = nreq + 1
    /\ UNCHANGED <<from_rcs, obj>>
    /\ IF from_rcs
       THEN /\ last' = [Fail("post", "OperationNotPermitted", 403) EXCEPT !.kw = as_dict(rc)]
            /\ UNCHANGED <<db, nextId>>
       ELSE LET store == rc_create(db, nextId, as_dict(rc))
                new_rc == store[Len(store)]
            IN /\ db' = store
               /\ nextId' = nextId + 1
               /\ last' = [Idle EXCEPT !.op = "post", !.exc = "ok", !.code = 201,
                                       !.pre = db, !.kw = as_dict(rc), !.created = TRUE,
                                       !.target = new_rc["uuid"],
                                       !.ret = <<convert_with_links(new_rc, TRUE)>>]

Post(cap) == nreq < cap /\ \E bay \in BayRefs : post(PostBody(bay))

\* ReplicationControllersController.get_one
get_one(rc_uuid) ==
    /\ nreq' = nreq + 1
    /\ UNCHANGED <<db, nextId, from_rcs, obj>>
    /\ IF from_rcs
       THEN last' = Fail("get_one", "OperationNotPermitted", 403)
       ELSE IF get_by_uuid(db, rc_uuid) = {}
       THEN last' = [Fail("get_one", "ReplicationControllerNotFound", 404) EXCEPT !.target = rc_uuid]
       ELSE LET rpc_rc == db[CHOOSE i \in get_by_uuid(db, rc_uuid) : TRUE]
            IN last' = [Idle EXCEPT !.op = "get_one", !.exc = "ok", !.code = 200,
                                    !.pre = db, !.target = rc_uuid,
                                    !.ret = <<convert_with_links(rpc_rc, TRUE)>>]

GetOne(cap) == nreq < cap /\ \E u \in KnownUuids : get_one(u)

\* ReplicationControllersController.delete
delete(rc_uuid) ==
    /\ nreq' = nreq + 1
    /\ UNCHANGED <<nextId, from_rcs, obj>>
    /\ IF from_rcs
       THEN last' = Fail("delete", "OperationNotPermitted", 403) /\ UNCHANGED db
       ELSE IF get_by_uuid(db, rc_uuid) = {}
       THEN /\ last' = [Fail("delete", "ReplicationControllerNotFound", 404) EXCEPT !.target = rc_uuid]
            /\ UNCHANGED db
       ELSE /\ db' = rc_delete(db, CHOOSE i \in get_by_uuid(db, rc_uuid) : TRUE)
            /\ last' = [Idle EXCEPT !.op = "delete", !.exc = "ok", !.code = 204,
                                    !.pre = db, !.target = rc_uuid]

Delete(cap) == nreq < cap /\ \E u \in KnownUuids : delete(u)

\* ---------------------------------------------------------------- patch
\* ReplicationControllerPatchType.mandatory_attrs: attributes a patch may not remove
mandatory_attrs == {"rc_uuid"}

\* types.JsonPatchType.internal_attrs: attributes a patch may not alter
internal_attrs == {"uuid"}

\* the patch operations a client sends in this model
PatchOps ==
    {[op |-> "replace", path |-> p, value |-> "x"] :
        p \in {"uuid", "id", "name", "rc_definition_url", "rc_data"}}
    \cup {[op |-> "replace", path |-> "rc_uuid", value |-> UuidOf(1)]}
    \cup {[op |-> "remove", path |-> p, value |-> None] : p \in {"uuid", "name", "rc_uuid"}}
    \cup {[op |-> "add", path |-> "name", value |-> "x"]}

PatchDocs == UNION {[1..n -> PatchOps] : n \in 0..MaxPatchLen}

\* one JSON-patch operation on a flat mapping
apply_op(m, p) ==
    CASE p.op = "add" -> [ok |-> TRUE, doc |-> SetKey(m, p.path, p.value)]
      [] p.op = "replace" ->
            IF p.path \in DOMAIN m THEN [ok |-> TRUE, doc |-> SetKey(m, p.path, p.value)]
            ELSE [ok |-> FALSE, doc |-> m]
      [] p.op = "remove" ->
            IF p.path \in DOMAIN m THEN [ok |-> TRUE, doc |-> DelKey(m, p.path)]
            ELSE [ok |-> FALSE, doc |-> m]

\* api_utils.apply_jsonpatch: all of the document or none of it
RECURSIVE apply_jsonpatch(_, _)
apply_jsonpatch(m, patch) ==
    IF patch = <<>> THEN [ok |-> TRUE, doc |-> m]
    ELSE LET r == apply_op(m, Head(patch))
         IN IF r.ok THEN apply_jsonpatch(r.doc, Tail(patch)) ELSE [ok |-> FALSE, doc |-> m]

\* the operations of the document up to its first failing one, applied
RECURSIVE apply_prefix(_, _)
apply_prefix(m, patch) ==
    IF patch = <<>> THEN m
    ELSE LET r == apply_op(m, Head(patch))
         IN IF r.ok THEN apply_prefix(r.doc, Tail(patch)) ELSE m

\* types.JsonPatchType.validate: an internal attribute altered, or a mandatory one removed
immutable_violation(cur, cand) ==
    \/ \E f \in internal_attrs : f \notin DOMAIN cand \/ cand[f] # cur[f]
    \/ \E f \in mandatory_attrs : f \notin DOMAIN cand

\* patch(): rc_dict, the record as the flat mapping the patch is applied to
rc_dict_of(rpc_rc) ==
    LET d == obj_as_dict(rpc_rc)
    IN SetKey(DelKey(d, "rc_id"), "rc_uuid", Get(d, "rc_id", None))

\* the update loop passing over rc_definition_url only
skip_field_url_only(field) == field = "rc_definition_url"

\* patch(): the fields the update loop passes over
skip_field(field) == field = "rc_definition_url" \/ field = "rc_data"

\* patch(): getattr(rc, field), with Unset read as None
patch_val(rc, field) == IF rc.attrs[field] = Unset THEN None ELSE rc.attrs[field]

\* the update loop reading a field the API object lacks as None, getattr(rc, field, None)
update_fields_default_none(rpc_rc, rc) ==
    [field \in Range(Fields) |->
        IF skip_field(field) THEN rpc_rc[field]
        ELSE IF field \notin DOMAIN rc.attrs THEN None
        ELSE IF rpc_rc[field] # patch_val(rc, field) THEN patch_val(rc, field)
        ELSE rpc_rc[field]]

\* patch(): the update loop, "update only the fields that have changed"
update_fields(rpc_rc, rc) ==
    [field \in Range(Fields) |->
        IF skip_field(field) THEN rpc_rc[field]
        ELSE IF field \notin DOMAIN rc.attrs THEN rpc_rc[field]
        ELSE IF rpc_rc[field] # patch_val(rc, field) THEN patch_val(rc, field)
        ELSE rpc_rc[field]]

Changed(old, new) == {f \in Range(Fields) : old[f] # new[f]}

\* patch() checking the immutable attributes only after the update loop and save()
patch_outcome_validates_late(store, frm, rc_uuid, doc) ==
    LET base == [Idle EXCEPT !.op = "patch", !.pre = store, !.target = rc_uuid,
                             !.addressed = {doc[k].path : k \in DOMAIN doc}]
        failed(exc, code) == [store |-> store, last |-> [base EXCEPT !.exc = exc, !.code = code]]
    IN IF frm THEN failed("OperationNotPermitted", 403)
       ELSE IF get_by_uuid(store, rc_uuid) = {}
       THEN failed("ReplicationControllerNotFound", 404)
       ELSE LET i == CHOOSE j \in get_by_uuid(store, rc_uuid) : TRUE
                rpc_rc == store[i]
                rc_dict == rc_dict_of(rpc_rc)
                r == apply_jsonpatch(rc_dict, doc)
                seen == [base EXCEPT !.before = <<rpc_rc>>, !.idx = i]
            IN IF ~r.ok
               THEN [store |-> store, last |-> [seen EXCEPT !.exc = "PatchError", !.code = 400]]
               ELSE LET rc == ReplicationController(r.doc)
                        new == update_fields(rpc_rc, rc)
                        done == [seen EXCEPT !.kw = r.doc, !.built = <<rc>>,
                                             !.assigned = Changed(rpc_rc, new), !.saved = TRUE]
                    IN IF immutable_violation(rc_dict, r.doc)
                       THEN [store |-> save(store, i, new),
                             last |-> [done EXCEPT !.exc = "ClientSideError", !.code = 400]]
                       ELSE [store |-> save(store, i, new),
                             last |-> [done EXCEPT !.exc = "ok", !.code = 200,
                                                   !.ret = <<convert_with_links(new, TRUE)>>]]

\* patch() assigning the fields of the operations that applied before the one that failed
patch_outcome_partial(store, frm, rc_uuid, doc) ==
    LET base == [Idle EXCEPT !.op = "patch", !.pre = store, !.target = rc_uuid,
                             !.addressed = {doc[k].path : k \in DOMAIN doc}]
        failed(exc, code) == [store |-> store, last |-> [base EXCEPT !.exc = exc, !.code = code]]
    IN IF frm THEN failed("OperationNotPermitted", 403)
       ELSE IF get_by_uuid(store, rc_uuid) = {}
       THEN failed("ReplicationControllerNotFound", 404)
       ELSE LET i == CHOOSE j \in get_by_uuid(store, rc_uuid) : TRUE
                rpc_rc == store[i]
                rc_dict == rc_dict_of(rpc_rc)
                r == apply_jsonpatch(rc_dict, doc)
                seen == [base EXCEPT !.before = <<rpc_rc>>, !.idx = i]
            IN IF ~r.ok
               THEN LET part == update_fields(rpc_rc,
                                    ReplicationController(apply_prefix(rc_dict, doc)))
                    IN [store |-> store,
                        last |-> [seen EXCEPT !.exc = "PatchError", !.code = 400,
                                              !.assigned = Changed(rpc_rc, part)]]
               ELSE IF immutable_violation(rc_dict, r.doc)
               THEN [store |-> store,
                     last |-> [seen EXCEPT !.exc = "ClientSideError", !.code = 400, !.kw = r.doc]]
               ELSE LET rc == ReplicationController(r.doc)
                        new == update_fields(rpc_rc, rc)
                    IN [store |-> save(store, i, new),
                        last |-> [seen EXCEPT !.exc = "ok", !.code = 200, !.kw = r.doc,
                                              !.built = <<rc>>,
                                              !.assigned = Changed(rpc_rc, new),
                                              !.saved = TRUE,
                                              !.ret = <<convert_with_links(new, TRUE)>>]]

\* ReplicationControllersController.patch, as a function of the store and the request
patch_outcome(store, frm, rc_uuid, doc) ==
    LET base == [Idle EXCEPT !.op = "patch", !.pre = store, !.target = rc_uuid,
                             !.addressed = {doc[k].path : k \in DOMAIN doc}]
        failed(exc, code) == [store |-> store, last |-> [base EXCEPT !.exc = exc, !.code = code]]
    IN IF frm THEN failed("OperationNotPermitted", 403)
       ELSE IF get_by_uuid(store, rc_uuid) = {}
       THEN failed("ReplicationControllerNotFound", 404)
       ELSE LET i == CHOOSE j \in get_by_uuid(store, rc_uuid) : TRUE
                rpc_rc == store[i]
                rc_dict == rc_dict_of(rpc_rc)
                r == apply_jsonpatch(rc_dict, doc)
                seen == [base EXCEPT !.before = <<rpc_rc>>, !.idx = i]
            IN IF ~r.ok
               THEN [store |-> store, last |-> [seen EXCEPT !.exc = "PatchError", !.code = 400]]
               ELSE IF immutable_violation(rc_dict, r.doc)
               THEN [store |-> store,
                     last |-> [seen EXCEPT !.exc = "ClientSideError", !.code = 400, !.kw = r.doc]]
               ELSE LET rc == ReplicationController(r.doc)
                        new == update_fields(rpc_rc, rc)
                    IN [store |-> save(store, i, new),
                        last |-> [seen EXCEPT !.exc = "ok", !.code = 200, !.kw = r.doc,
                                              !.built = <<rc>>,
                                              !.assigned = Changed(rpc_rc, new),
                                              !.saved = TRUE,
                                              !.ret = <<convert_with_links(new, TRUE)>>]]

patch(rc_uuid, doc) ==
    /\ nreq' = nreq + 1
    /\ UNCHANGED <<nextId, from_rcs, obj>>
    /\ \E out \in {patch_outcome(db, from_rcs, rc_uuid, doc)} :
           db' = out.store /\ last' = out.last

Patch(cap) == nreq < cap /\ \E u \in KnownUuids, doc \in PatchDocs : patch(u, doc)

\* ---------------------------------------------------------------- listing
\* a request's limit: <<>> when the client gives none, <<n>> otherwise
Limits == {<<>>} \cup {<<n>> : n \in 0..(max_limit + 1)}

SortKeys == {"id", "uuid"}
SortDirs == {"asc", "desc", "up"}

Min(a, b) == IF a < b THEN a ELSE b

\* api_utils.validate_limit: <<>> when the limit is rejected
validate_limit(limit) ==
    IF limit = <<>> THEN <<max_limit>>
    ELSE IF limit[1] <= 0 THEN <<>>
    ELSE <<Min(max_limit, limit[1])>>

\* api_utils.validate_sort_dir
validate_sort_dir(sort_dir) == sort_dir \in {"asc", "desc"}

\* store.list: at most limit records after the marker, in the order asked for.
\* Uuids are handed out in surrogate-id order, so both sort keys give the same order.
rc_list(store, limit, marker_pos, sort_key, sort_dir) ==
    LET ordered == IF sort_dir = "asc" THEN store ELSE Reverse(store)
        start == IF marker_pos = 0 THEN 0
                 ELSE IF sort_dir = "asc" THEN marker_pos ELSE Len(store) + 1 - marker_pos
        rest == SubSeq(ordered, start + 1, Len(ordered))
    IN SubSeq(rest, 1, Min(limit, Len(rest)))

\* collection.Collection.get_next: <<>> when there is no next page
get_next(rcs, type, limit, url, sort_key, sort_dir) ==
    IF Len(rcs) # 0 /\ Len(rcs) = limit
    THEN <<[url |-> IF url = "" THEN type ELSE url,
            limit |-> limit,
            marker |-> rcs[Len(rcs)].attrs["uuid"],
            sort_key |-> sort_key,
            sort_dir |-> sort_dir]>>
    ELSE <<>>

\* ReplicationControllerCollection.convert_with_links
collection_convert_with_links(rpc_rcs, limit, url, expand, sort_key, sort_dir) ==
    LET rcs == [i \in 1..Len(rpc_rcs) |-> convert_with_links(rpc_rcs[i], expand)]
    IN [type |-> "rcs",
        rcs |-> rcs,
        next |-> get_next(rcs, "rcs", limit, url, sort_key, sort_dir)]

\* _get_rcs_collection handing the collection the limit as the client sent it
_get_rcs_collection_raw_limit(op, store, marker, limit, sort_key, sort_dir, expand, resource_url) ==
    LET base == [Idle EXCEPT !.op = op, !.pre = store,
                             !.query = [marker |-> marker, limit |-> limit,
                                        sort_key |-> sort_key, sort_dir |-> sort_dir]]
        lim == validate_limit(limit)
    IN IF lim = <<>> THEN [base EXCEPT !.exc = "ClientSideError", !.code = 400]
       ELSE IF ~validate_sort_dir(sort_dir)
       THEN [base EXCEPT !.exc = "ClientSideError", !.code = 400]
       ELSE IF marker # None /\ get_by_uuid(store, marker) = {}
       THEN [base EXCEPT !.exc = "ReplicationControllerNotFound", !.code = 404]
       ELSE LET marker_pos == IF marker = None THEN 0
                              ELSE CHOOSE j \in get_by_uuid(store, marker) : TRUE
                rcs == rc_list(store, lim[1], marker_pos, sort_key, sort_dir)
            IN [base EXCEPT !.exc = "ok", !.code = 200, !.listed = rcs, !.did_list = TRUE,
                            !.coll = <<collection_convert_with_links(
                                          rcs, IF limit = <<>> THEN 0 ELSE limit[1],
                                          resource_url, expand, sort_key, sort_dir)>>]

\* ReplicationControllersController._get_rcs_collection
_get_rcs_collection(op, store, marker, limit, sort_key, sort_dir, expand, resource_url) ==
    LET base == [Idle EXCEPT !.op = op, !.pre = store,
                             !.query = [marker |-> marker, limit |-> limit,
                                        sort_key |-> sort_key, sort_dir |-> sort_dir]]
        lim == validate_limit(limit)
    IN IF lim = <<>> THEN [base EXCEPT !.exc = "ClientSideError", !.code = 400]
       ELSE IF ~validate_sort_dir(sort_dir)
       THEN [base EXCEPT !.exc = "ClientSideError", !.code = 400]
       ELSE IF marker # None /\ get_by_uuid(store, marker) = {}
       THEN [base EXCEPT !.exc = "ReplicationControllerNotFound", !.code = 404]
       ELSE LET marker_pos == IF marker = None THEN 0
                              ELSE CHOOSE j \in get_by_uuid(store, marker) : TRUE
                rcs == rc_list(store, lim[1], marker_pos, sort_key, sort_dir)
            IN [base EXCEPT !.exc = "ok", !.code = 200, !.listed = rcs, !.did_list = TRUE,
                            !.coll = <<collection_convert_with_links(
                                          rcs, lim[1], resource_url, expand,
                                          sort_key, sort_dir)>>]

\* ReplicationControllersController.get_all
get_all(marker, limit, sort_key, sort_dir) ==
    /\ nreq' = nreq + 1
    /\ UNCHANGED <<db, nextId, from_rcs, obj>>
    /\ last' = _get_rcs_collection("get_all", db, marker, limit, sort_key, sort_dir, FALSE, "")

GetAll(cap) ==
    /\ nreq < cap
    /\ \E marker \in KnownUuids \cup {None}, limit \in Limits,
       sort_key \in SortKeys, sort_dir \in SortDirs :
        get_all(marker, limit, sort_key, sort_dir)

\* pecan.request.path.split('/') of the requests that are routed to detail()
DetailPaths ==
    {<<"", "v1", "rcs", "detail">>,
     <<"", "v1", "rcs", UuidOf(1), "rcs", "detail">>,
     <<"", "v1", "rcs", UuidOf(1), "detail">>,
     <<"", "v1", "bays", "b1", "rcs", "detail">>}

\* the parent taken without dropping the last segment, split('/')[-1]
parent_of_last(path) == path[Len(path)]

\* detail(): pecan.request.path.split('/')[:-1][-1]
parent_of(path) == LET p == SubSeq(path, 1, Len(path) - 1) IN p[Len(p)]

\* ReplicationControllersController.detail, as a function of the store and the request
detail_outcome(store, path, marker, limit, sort_key, sort_dir) ==
    IF parent_of(path) # "rcs"
    THEN [Idle EXCEPT !.op = "detail", !.pre = store, !.path = path,
                      !.exc = "HTTPNotFound", !.code = 404]
    ELSE [_get_rcs_collection("detail", store, marker, limit, sort_key, sort_dir,
                              TRUE, "rcs/detail") EXCEPT !.path = path]

detail(path, marker, limit, sort_key, sort_dir) ==
    /\ nreq' = nreq + 1
    /\ UNCHANGED <<db, nextId, from_rcs, obj>>
    /\ last' = detail_outcome(db, path, marker, limit, sort_key, sort_dir)

Detail(cap) ==
    /\ nreq < cap
    /\ \E path \in DetailPaths, marker \in KnownUuids \cup {None}, limit \in Limits,
       sort_key \in SortKeys, sort_dir \in SortDirs :
        detail(path, marker, limit, sort_key, sort_dir)

\* ---------------------------------------------------------------- the rc_uuid setter
\* Python truth value of the values assigned in this model
Truthy(value) == value \notin {None, Unset, ""}

\* objects.ReplicationController.get: the record, or ReplicationControllerNotFound (404)
rc_get(store, value) ==
    IF get_by_uuid(store, value) = {}
    THEN [found |-> FALSE, exc |-> "ReplicationControllerNotFound", code |-> 404, rc |-> EmptyDict]
    ELSE [found |-> TRUE, exc |-> "ok", code |-> 0,
          rc |-> store[CHOOSE j \in get_by_uuid(store, value) : TRUE]]

\* _set_rc_uuid re-raising the lookup's error with the code it came with
_set_rc_uuid_keeps_code(self, store, value) ==
    IF Truthy(value) /\ self.attrs["_rc_uuid"] # value
    THEN LET r == rc_get(store, value)
         IN IF r.found
            THEN [self |-> [self EXCEPT !.attrs =
                               SetKey(SetKey(self.attrs, "_rc_uuid", r.rc["uuid"]),
                                      "rc_id", r.rc["id"])],
                  exc |-> "ok", code |-> 0]
            ELSE [self |-> self, exc |-> r.exc, code |-> r.code]
    ELSE IF value = Unset
    THEN [self |-> [self EXCEPT !.attrs = SetKey(self.attrs, "_rc_uuid", Unset)],
          exc |-> "ok", code |-> 0]
    ELSE [self |-> self, exc |-> "ok", code |-> 0]

\* ReplicationController._set_rc_uuid
_set_rc_uuid(self, store, value) ==
    IF Truthy(value) /\ self.attrs["_rc_uuid"] # value
    THEN LET r == rc_get(store, value)
         IN IF r.found
            THEN [self |-> [self EXCEPT !.attrs =
                               SetKey(SetKey(self.attrs, "_rc_uuid", r.rc["uuid"]),
                                      "rc_id", r.rc["id"])],
                  exc |-> "ok", code |-> 0]
            ELSE [self |-> self, exc |-> r.exc, code |-> 400]
    ELSE IF value = Unset
    THEN [self |-> [self EXCEPT !.attrs = SetKey(self.attrs, "_rc_uuid", Unset)],
          exc |-> "ok", code |-> 0]
    ELSE [self |-> self, exc |-> "ok", code |-> 0]

SetterValues == KnownUuids \cup {None, Unset, ""}

SetRcUuid(cap) ==
    /\ nreq < cap
    /\ \E value \in SetterValues :
        /\ nreq' = nreq + 1
        /\ UNCHANGED <<db, nextId, from_rcs>>
        /\ LET out == _set_rc_uuid(obj, db, value)
           IN /\ obj' = out.self
              /\ last' = [Idle EXCEPT !.op = "set_rc_uuid", !.pre = db, !.target = value,
                                      !.exc = out.exc, !.code = out.code,
                                      !.before = <<obj>>]

Init ==
    /\ db = <<>>
    /\ nextId = 1
    /\ from_rcs \in BOOLEAN
    /\ nreq = 0
    /\ obj = ReplicationController(EmptyDict)
    /\ last = Idle

Next ==
    \/ Post(MaxRequests)
    \/ GetOne(MaxRequests)
    \/ Delete(MaxRequests)
    \/ Patch(MaxRequests)
    \/ GetAll(MaxRequests)
    \/ Detail(MaxRequests)

Spec == Init /\ [][Next]_vars

NextList ==
    \/ Post(MaxListRequests)
    \/ Delete(MaxListRequests)
    \/ GetAll(MaxListRequests)
    \/ Detail(MaxListRequests)

SpecList == Init /\ [][NextList]_vars

NextResolver ==
    \/ Post(MaxSetterCalls)
    \/ Delete(MaxSetterCalls)
    \/ SetRcUuid(MaxSetterCalls)

SpecResolver == Init /\ [][NextResolver]_vars

\* ---------------------------------------------------------------- properties
\* the record a patch request loaded, and what the store holds in its place now
PatchSeen == last.op = "patch" /\ last.before # <<>>
Before == last.before[1]
After == db[last.idx]

\* attributes of the record that the API object carries
Exposed == DeclaredAttrs \cup BaseAttrs

CreateOnly == {"rc_definition_url", "rc_data"}

\* the candidate value of a field as the record would hold it: absent reads None
CandVal(f) == IF f \in DOMAIN last.kw /\ last.kw[f] # Unset THEN last.kw[f] ELSE None

\* every Representation the last request returned to the client
Returned ==
    Range(last.ret) \cup (IF last.coll = <<>> THEN {} ELSE Range(last.coll[1].rcs))

\* C1: a patch that does not address /uuid leaves the record's uuid as it was; a patch
\* that would alter uuid is rejected, and the store, the record's fields and save() are
\* as if the request had not been made.
C1_UuidImmutable ==
    PatchSeen =>
        /\ (last.exc = "ok" /\ "uuid" \notin last.addressed) => After["uuid"] = Before["uuid"]
        /\ ("uuid" \in last.addressed /\ Get(last.kw, "uuid", None) # Before["uuid"]) =>
               /\ last.exc # "ok"
               /\ db = last.pre
               /\ last.assigned = {}
               /\ ~last.saved

C1_Witness ==
    /\ PatchSeen
    /\ last.exc = "ClientSideError"
    /\ "uuid" \in DOMAIN last.kw
    /\ last.kw["uuid"] # Before["uuid"]
    /\ "name" \in last.addressed

\* C2: when patch() fails with a validation error (malformed document, immutable
\* attribute, unresolvable reference: the 400 class), no field of the record has been
\* assigned, save() has not been called and the store is as before.
C2_FailureBeforeMutation ==
    (last.op = "patch" /\ last.code = 400) =>
        /\ last.assigned = {}
        /\ ~last.saved
        /\ db = last.pre

C2_Witness ==
    /\ PatchSeen
    /\ last.exc = "PatchError"
    /\ last.addressed = {"name"}

\* C3: after a successful patch that addresses rc_definition_url or rc_data, both hold
\* their pre-patch values, and every other updatable field the patch addresses holds
\* its candidate value (None when the patch removed it).
C3_CreateOnlyIgnored ==
    (PatchSeen /\ last.exc = "ok" /\ last.addressed \cap CreateOnly # {}) =>
        /\ \A f \in CreateOnly : After[f] = Before[f]
        /\ \A f \in (last.addressed \cap Exposed) \ CreateOnly : After[f] = CandVal(f)

C3_Witness ==
    /\ PatchSeen
    /\ last.exc = "ok"
    /\ "rc_data" \in last.addressed
    /\ CandVal("rc_data") # Before["rc_data"]
    /\ "name" \in last.addressed
    /\ After["name"] # Before["name"]

\* C4: every Representation returned by get_one, post, patch, get_all or detail has
\* rc_id equal to Unset, so that it is not part of what is sent to the client.
C4_RcIdStripped ==
    \A rc \in Returned :
        /\ "rc_id" \in DOMAIN rc.attrs
        /\ rc.attrs["rc_id"] = Unset
        /\ "rc_id" \notin DOMAIN as_dict(rc)

C4_Witness ==
    /\ last.op = "detail"
    /\ last.coll # <<>>
    /\ Len(last.coll[1].rcs) >= 1

C6_PostUnknownBayRejected ==
    (last.op = "post" /\ ~from_rcs /\ Get(last.kw, "bay_uuid", None) \notin Bays) =>
        /\ last.code = 400
        /\ ~last.created
        /\ db = last.pre

\* C7 as stated: only the direct /rcs/detail request is served; a request that reaches
\* detail() through a nested path is rejected with OperationNotPermitted and lists nothing.
C7_NestedDetailNotPermitted ==
    (last.op = "detail" /\ last.path # <<"", "v1", "rcs", "detail">>) =>
        /\ last.exc = "OperationNotPermitted"
        /\ ~last.did_list

\* C7 amended: detail() lists only when the path segment just before "detail" is "rcs"
\* (the nested /rcs/{uuid}/rcs/detail included); any other request reaching detail() is
\* rejected with HTTPNotFound (404) and lists nothing.
C7_DetailParentCheck ==
    last.op = "detail" =>
        LET before_last == last.path[Len(last.path) - 1]
        IN /\ before_last # "rcs" =>
                  /\ last.exc = "HTTPNotFound"
                  /\ last.code = 404
                  /\ ~last.did_list
                  /\ last.coll = <<>>
           /\ before_last = "rcs" =>
                  /\ last.exc # "HTTPNotFound"
                  /\ last.did_list = (last.exc = "ok")

C7_Witness ==
    /\ last.op = "detail"
    /\ last.path = <<"", "v1", "rcs", UuidOf(1), "detail">>
    /\ last.exc = "HTTPNotFound"
    /\ Len(db) >= 1

\* C8: a served list request with validated limit L returns the store's records in the
\* store's order; next is present exactly when the number of records equals L, and then
\* carries the last record's uuid as marker with the same limit, sort_key and sort_dir.
C8_NextPage ==
    (last.op \in {"get_all", "detail"} /\ last.exc = "ok") =>
        LET c == last.coll[1]
            L == IF last.query.limit = <<>> THEN max_limit
                 ELSE Min(max_limit, last.query.limit[1])
            n == Len(last.listed)
        IN /\ Len(c.rcs) = n
           /\ \A i \in 1..n : c.rcs[i].attrs["uuid"] = last.listed[i]["uuid"]
           /\ (c.next # <<>>) <=> (n = L)
           /\ c.next # <<>> =>
                  /\ c.next[1].marker = last.listed[n]["uuid"]
                  /\ c.next[1].limit = L
                  /\ c.next[1].sort_key = last.query.sort_key
                  /\ c.next[1].sort_dir = last.query.sort_dir

C8_Witness ==
    /\ last.op = "get_all"
    /\ last.exc = "ok"
    /\ Len(last.listed) = 1
    /\ Len(db) = 2
    /\ last.coll[1].next # <<>>
    /\ last.query.sort_dir = "desc"

\* C9: a Representation constructed from a mapping whose rc_uuid is the uuid of a stored
\* record has that record's uuid as rc_uuid and that record's id as rc_id.
C9_ConstructorResolves ==
    (/\ PatchSeen
     /\ last.built # <<>>
     /\ get_by_uuid(last.pre, Get(last.kw, "rc_uuid", None)) # {}) =>
        LET rec == last.pre[CHOOSE j \in get_by_uuid(last.pre, last.kw["rc_uuid"]) : TRUE]
            rc == last.built[1]
        IN /\ Get(rc.attrs, "rc_uuid", "absent") = rec["uuid"]
           /\ Get(rc.attrs, "rc_id", "absent") = rec["id"]

\* C10: after a successful patch, every field of the record that the patch does not
\* address, and every field the API object does not carry, holds its pre-patch value;
\* an empty patch leaves the whole record as it was.
C10_Frame ==
    (PatchSeen /\ last.exc = "ok") =>
        /\ \A f \in Range(Fields) :
               (f \notin last.addressed \/ f \notin Exposed) => After[f] = Before[f]
        /\ last.addressed = {} => After = Before
        /\ \A j \in 1..Len(db) : j # last.idx => db[j] = last.pre[j]

C10_Witness ==
    /\ PatchSeen
    /\ last.exc = "ok"
    /\ "id" \in last.addressed
    /\ last.kw["id"] # Before["id"]
    /\ "name" \in last.addressed
    /\ After["name"] # Before["name"]
    /\ Len(db) = 1
====
